---------------------------- MODULE Spec2Model ----------------------------
(***************************************************************************)
(* Batch coordinator (BatchAnalyzerPage.processQueue), ingestion pipeline  *)
(* (geminiService.analyzeContent / uploadAndWaitForVideo) and retry        *)
(* wrapper (geminiService.retryOperation) of knowledge-base-assistant.     *)
(*                                                                         *)
(* Execution model.  The page is a React 18 function component mounted     *)
(* with createRoot (src/index.tsx).  `files`, `isQueueProcessing` and      *)
(* `activeFileId` are the component state: the value obtained by applying  *)
(* every queued updater in order (activeFileId only decides which row the  *)
(* detail pane shows; the user can select any rendered row, so it is not   *)
(* kept: the retry button is available for every rendered FAILED row).     *)
(* Of a render only the fields its handlers read are kept (View).  `shown` is the state captured by the    *)
(* last committed render; event handlers are closures of that render, so   *)
(* a handler reads `shown`, never the component state.  State updates made *)
(* inside a click/change handler are committed before the next event is    *)
(* dispatched (the handler action ends with Commit); updates made by an    *)
(* async continuation are committed by a later Render step.  JavaScript is *)
(* single-threaded: the code between two awaits is one atomic step, and a  *)
(* continuation of an already settled promise (a microtask) runs before    *)
(* any timer, network reply or user event.                                 *)
(*                                                                         *)
(* Text is modelled as a sequence of tokens; String.includes is the        *)
(* contiguous-subsequence test on tokens.  An optional field is <<>>       *)
(* (undefined) or <<v>>.                                                   *)
(***************************************************************************)
EXTENDS Integers, Sequences, FiniteSets, TLC

\* ------------------------------------------------------------------ bounds
MaxFiles == 3
MaxVideoFiles == 1
MaxRuns == 2
MaxRetries == 3

\* ------------------------------------------------------- program constants
maxPolls == 60
DefaultRetries == 1
DefaultDelay == 1000
ServerErrorStatus == 500

\* --------------------------------------------------------- AnalysisStatus
IDLE == "idle"
PROCESSING == "processing"
COMPLETED == "completed"
FAILED == "failed"
AnalysisStatus == {IDLE, PROCESSING, COMPLETED, FAILED}

\* ------------------------------------------------------------- FileState
FS_PROCESSING == "PROCESSING"
FS_ACTIVE == "ACTIVE"
FS_FAILED == "FAILED"
FileState == {FS_PROCESSING, FS_ACTIVE, FS_FAILED}

\* ------------------------------------------------------------------ text
None == <<>>
Some(v) == <<v>>

\* s.includes(sub) on token sequences
Includes(s, sub) ==
    \/ Len(sub) = 0
    \/ \E k \in 1..(Len(s) - Len(sub) + 1) :
          \A j \in 1..Len(sub) : s[k + j - 1] = sub[j]

\* mimeType.startsWith('video/'): a mime type is <<type, subtype>>
StartsWithVideo(mimeType) == Len(mimeType) > 0 /\ mimeType[1] = "video"

MimePdf == <<"application", "pdf">>
MimeVideo == <<"video", "mp4">>

\* messages of the errors the service constructs
MsgNoKey == <<"configure", "process.env.API_KEY">>
MsgNoFileInfo == <<"no file info returned after upload">>
MsgStateFailed == <<"Google cannot process this video", "(State:", "FAILED", ").">>
MsgTimeout == <<"video cloud processing timed out,", "try again later">>
MsgUploadPrefix == <<"video upload failed:">>
MsgFileReader == <<"FileReader failed:", "[object ProgressEvent]">>
Msg413 == <<"file content too large.", "check account quota.">>
Msg400 == <<"bad request parameters", "(", "400", ")", "or API key invalid.">>
Msg403 == <<"API key permission denied", "(", "403", ").", "enable Generative Language API.">>
MsgNetwork == <<"network connection failed.", "check the network.">>
MsgFallback == <<"No response text generated.">>
DetailOpen == <<"[Detailed Error:">>
DetailClose == <<"]">>

\* progress strings
P_PREPARING == "preparing"
P_UPLOADING == "uploading"
P_WAITING == "waiting"
P_GENERATING == "generating"
P_READING == "reading"
P_ANALYZING == "analyzing"
P_DONE == "done"
P_FAILED == "failed"

\* an error object: status (0 = undefined) and message
Err(status, message) == [status |-> status, message |-> message]

\* errors the remote API / network can raise
RemoteErrors == { Err(503, <<"503", "model overloaded">>) }

\* response.text of the replies the remote model gives in the batch
\* specification: None is undefined, Some(t) the string t
ResponseTexts == { Some(<<"OK">>) }

\* process.env as seen by getApiKey: no process object, no key, API_KEY only
EnvSet ==
    { [defined |-> FALSE, GEMINI_API_KEY |-> "", API_KEY |-> ""],
      [defined |-> TRUE, GEMINI_API_KEY |-> "", API_KEY |-> ""],
      [defined |-> TRUE, GEMINI_API_KEY |-> "", API_KEY |-> "a"] }

\* mode              the page's `mode` prop ("pdf" or "video")
\* env               process.env as read by getApiKey
\* files             useState<ExtendedAnalysisFile[]>, in enqueue order
\* isQueueProcessing useState(false)
\* shown             the committed render whose handlers are on screen
\* runs              the processQueue invocations that have not returned
\* nextId            the next fresh file id (Math.random ids never repeat)
\* last              the kind of the last step: "start" / "retry" (a
\*                   processQueue invocation from that button), "finish"
\*                   (processQueue returned), "other"
\* rt                a retryOperation invocation on its own (SpecRetry)
\* web               the web analyzer page and its handleStart (SpecWeb)
VARIABLES mode, env, files, isQueueProcessing, shown,
          runs, nextId, last, rt, web

vars == <<mode, env, files, isQueueProcessing, shown,
          runs, nextId, last, rt, web>>

batchVars == <<mode, env, files, isQueueProcessing, shown,
               runs, nextId, last>>

\* =================================================== geminiService.ts ====

\* variant of getApiKey: falls back to a placeholder key, as testConnection does
GetApiKeyOrDummy(e) ==
    IF e.defined /\ e.GEMINI_API_KEY # "" THEN e.GEMINI_API_KEY
    ELSE IF e.defined /\ e.API_KEY # "" THEN e.API_KEY
    ELSE "dummy"

\* getApiKey: GEMINI_API_KEY, else API_KEY, else ""
GetApiKey(e) ==
    IF e.defined /\ e.GEMINI_API_KEY # "" THEN e.GEMINI_API_KEY
    ELSE IF e.defined /\ e.API_KEY # "" THEN e.API_KEY
    ELSE ""

\* variant of the classification: every error is retryable
IsRetryableAlways(error) == TRUE

\* retryOperation, the classification of a caught error
IsRetryable(error) ==
    \/ error.status >= ServerErrorStatus
    \/ Includes(error.message, <<"xhr error">>)
    \/ Includes(error.message, <<"fetch failed">>)

\* variant of the catch block: the remaining retries are not consulted
ShouldRetryIgnoringBudget(retries, error) == IsRetryable(error)

\* retryOperation, the catch block: retry (after waiting `delay`) or rethrow
ShouldRetry(retries, error) == retries > 0 /\ IsRetryable(error)

\* retryOperation, the arguments of the recursive call
NextRetries(retries) == retries - 1

\* variant of the recursive call's delay: constant backoff
NextDelaySame(delay) == delay

NextDelay(delay) == delay * 2

\* uploadAndWaitForVideo, the catch block: every error is re-thrown wrapped
WrapUploadError(error) == Err(0, MsgUploadPrefix \o error.message)

\* variant of the catch block: 403 is given the text of 400
UserMessage403As400(error) ==
    LET msg0 == IF error.message = <<>> THEN <<"Error">> ELSE error.message
        msg1 == IF Includes(msg0, <<"413">>) THEN Msg413
                ELSE IF Includes(msg0, <<"400">>) THEN Msg400
                ELSE IF Includes(msg0, <<"403">>) THEN Msg400
                ELSE IF Includes(msg0, <<"fetch failed">>) THEN MsgNetwork
                ELSE msg0
    IN  IF ~Includes(msg1, error.message)
        THEN msg1 \o DetailOpen \o error.message \o DetailClose
        ELSE msg1

\* variant of the catch block: lines 165-167 are missing
UserMessageNoDetail(error) ==
    LET msg0 == IF error.message = <<>> THEN <<"Error">> ELSE error.message
    IN  IF Includes(msg0, <<"413">>) THEN Msg413
        ELSE IF Includes(msg0, <<"400">>) THEN Msg400
        ELSE IF Includes(msg0, <<"403">>) THEN Msg403
        ELSE IF Includes(msg0, <<"fetch failed">>) THEN MsgNetwork
        ELSE msg0

\* analyzeContent, the catch block: the message of the error it throws
UserMessage(error) ==
    LET msg0 == IF error.message = <<>> THEN <<"Error">> ELSE error.message
        msg1 == IF Includes(msg0, <<"413">>) THEN Msg413
                ELSE IF Includes(msg0, <<"400">>) THEN Msg400
                ELSE IF Includes(msg0, <<"403">>) THEN Msg403
                ELSE IF Includes(msg0, <<"fetch failed">>) THEN MsgNetwork
                ELSE msg0
    IN  IF ~Includes(msg1, error.message)
        THEN msg1 \o DetailOpen \o error.message \o DetailClose
        ELSE msg1

\* variant of line 154: response.text is returned as it is
ResultTextRaw(text) == IF text = None THEN <<>> ELSE text[1]

\* analyzeContent line 154: response.text || "No response text generated."
\* (undefined and the empty string are both falsy)
ResultText(text) ==
    IF text = None \/ text = Some(<<>>) THEN MsgFallback ELSE text[1]

\* ============================================== BatchAnalyzerPage.tsx ====

\* one entry of `files` as handleFilesSelected creates it
NewFile(id, type) ==
    [id |-> id, type |-> type, status |-> IDLE,
     result |-> None, error |-> None, progressText |-> None]

\* setFiles(prev => prev.map(f => f.id === id ? Upd(f) : f))
MapFiles(fs, id, Upd(_)) ==
    IF fs = <<>> THEN <<>>
    ELSE [k \in 1..Len(fs) |-> IF fs[k].id = id THEN Upd(fs[k]) ELSE fs[k]]

\* variant of line 103: every Idle file is set to Processing
SetProcessingAllIdle(fs, id) ==
    IF fs = <<>> THEN <<>>
    ELSE [k \in 1..Len(fs) |->
             IF fs[k].id = id \/ fs[k].status = IDLE
             THEN [fs[k] EXCEPT !.status = PROCESSING,
                                !.progressText = Some(P_PREPARING)]
             ELSE fs[k]]

\* processQueue line 103
SetProcessing(fs, id) ==
    LET Upd(f) == [f EXCEPT !.status = PROCESSING,
                            !.progressText = Some(P_PREPARING)]
    IN  MapFiles(fs, id, Upd)

\* variant of line 109: the progress text is written to every file
SetProgressAll(fs, id, statusMsg) ==
    IF fs = <<>> THEN <<>>
    ELSE [k \in 1..Len(fs) |-> [fs[k] EXCEPT !.progressText = Some(statusMsg)]]

\* processQueue line 109 (the onStatusUpdate callback)
SetProgress(fs, id, statusMsg) ==
    LET Upd(f) == [f EXCEPT !.progressText = Some(statusMsg)]
    IN  MapFiles(fs, id, Upd)

\* variant of lines 112-117: an entry that is missing is added again
SetCompletedUpsert(fs, id, result) ==
    IF \E k \in DOMAIN fs : fs[k].id = id
    THEN [k \in 1..Len(fs) |->
             IF fs[k].id = id
             THEN [fs[k] EXCEPT !.status = COMPLETED,
                                !.progressText = Some(P_DONE),
                                !.result = Some(result)]
             ELSE fs[k]]
    ELSE Append(fs, [id |-> id, type |-> MimePdf, status |-> COMPLETED,
                     result |-> Some(result), error |-> None,
                     progressText |-> Some(P_DONE)])

\* variant of lines 112-117: the error of an earlier failure is cleared
SetCompletedClearError(fs, id, result) ==
    IF fs = <<>> THEN <<>>
    ELSE [k \in 1..Len(fs) |->
             IF fs[k].id = id
             THEN [fs[k] EXCEPT !.status = COMPLETED,
                                !.progressText = Some(P_DONE),
                                !.result = Some(result),
                                !.error = None]
             ELSE fs[k]]

\* variant of lines 112-117: the result field is not stored
SetCompletedNoResult(fs, id, result) ==
    LET Upd(f) == [f EXCEPT !.status = COMPLETED,
                            !.progressText = Some(P_DONE)]
    IN  MapFiles(fs, id, Upd)

\* processQueue lines 112-117
SetCompleted(fs, id, result) ==
    LET Upd(f) == [f EXCEPT !.status = COMPLETED,
                            !.progressText = Some(P_DONE),
                            !.result = Some(result)]
    IN  MapFiles(fs, id, Upd)

\* processQueue lines 119-124
SetFailed(fs, id, message) ==
    LET Upd(f) == [f EXCEPT !.status = FAILED,
                            !.progressText = Some(P_FAILED),
                            !.error = Some(message)]
    IN  MapFiles(fs, id, Upd)

\* variant of line 97: no re-entrancy guard
GuardAlwaysPasses(renderedFlag) == TRUE

\* processQueue line 97: the guard reads the rendered flag
GuardPasses(renderedFlag) == ~renderedFlag

\* variant of line 100: every file is selected
SelectAll(fs) == fs

\* variant of line 100: the selected files in reverse order
SelectReversed(fs) ==
    LET q == SelectSeq(fs, LAMBDA f : f.status = IDLE \/ f.status = FAILED)
    IN  IF q = <<>> THEN <<>> ELSE [k \in 1..Len(q) |-> q[Len(q) + 1 - k]]

\* processQueue line 100: files.filter(IDLE or FAILED), order preserved
SelectQueue(fs) ==
    SelectSeq(fs, LAMBDA f : f.status = IDLE \/ f.status = FAILED)

\* processQueue line 106
MimeOf(m, fileItem) == IF m = "pdf" THEN MimePdf ELSE fileItem.type

\* ------------------------------------------- one analyzeContent call ----
\* pc: where the call is suspended.  "upload" ai.files.upload, "pollWait"
\* the 2000 ms timer, "pollGet" ai.files.get, "read" fileToGenerativePart,
\* "generate" ai.models.generateContent, "retryWait" the retry timer,
\* "settled" returned or thrown with the caller's continuation pending.
\* uploads / polls / submits count the remote calls issued, waits lists the
\* retry delays waited, reported lists the onStatusUpdate arguments.
\* cause lists the errors that made the call fail, innermost first (the
\* error a remote call or the service raised, then the error
\* uploadAndWaitForVideo wrapped it in); response is <<text>> of the reply
\* generateContent resolved with.  uploaded holds the payloads (item ids)
\* passed to ai.files.upload, handle is <<h>> once the upload has returned
\* the file h (uploadResult / fileInfo), polled holds the names passed to
\* ai.files.get and submitted the file URIs referenced by the submissions.
\* the remote file (name and uri) the API creates for an uploaded payload
HandleOf(payload) == [payload |-> payload]

\* the files a call holds a reference to
Held(c) == {c.handle[k] : k \in DOMAIN c.handle}

NoOutcome == [kind |-> "none", value |-> <<>>]
Returned(text) == [kind |-> "return", value |-> text]
Thrown(message) == [kind |-> "throw", value |-> message]

NewCall(id) ==
    [id |-> id, pc |-> "start", i |-> 0, fileState |-> "NONE",
     retries |-> 0, delay |-> 0, outcome |-> NoOutcome,
     uploads |-> 0, polls |-> 0, submits |-> 0,
     waits |-> <<>>, reported |-> <<>>, cause |-> <<>>, response |-> <<>>,
     uploaded |-> {}, handle |-> <<>>, polled |-> {}, submitted |-> {}]

DoneCall == [NewCall(0) EXCEPT !.pc = "done"]

\* onStatusUpdate(statusMsg): the callback processQueue passes in
Report(cf, statusMsg) ==
    [c |-> [cf.c EXCEPT !.reported = Append(@, statusMsg)],
     f |-> SetProgress(cf.f, cf.c.id, statusMsg)]

\* analyzeContent lines 156-169: the catch block rejects the promise
Fail(cf, error) ==
    [cf EXCEPT !.c.pc = "settled", !.c.outcome = Thrown(UserMessage(error)),
               !.c.cause = Append(@, error)]

\* uploadAndWaitForVideo lines 71-74, then analyzeContent's catch
FailUpload(cf, error) ==
    Fail([cf EXCEPT !.c.cause = <<error>>], WrapUploadError(error))

\* analyzeContent line 154
Succeed(cf, text) ==
    [cf EXCEPT !.c.pc = "settled", !.c.outcome = Returned(ResultText(text)),
               !.c.response = Some(text)]

\* retryOperation line 83: the operation is invoked
Submit(cf) ==
    [cf EXCEPT !.c.pc = "generate", !.c.submits = @ + 1,
               !.c.submitted = @ \cup Held(cf.c)]

\* variant of lines 147-152: the submission is not retried
BeginGenerateNoRetry(cf) ==
    Submit([cf EXCEPT !.c.retries = 0, !.c.delay = DefaultDelay])

\* analyzeContent lines 147-152: retryOperation with its default arguments
BeginGenerate(cf) ==
    Submit([cf EXCEPT !.c.retries = DefaultRetries, !.c.delay = DefaultDelay])

\* variant of lines 55-68: an exhausted budget is a timeout whatever the
\* last poll returned
PollLoopTimeoutAtBudget(cf) ==
    IF cf.c.i < maxPolls /\ cf.c.fileState = FS_ACTIVE
    THEN BeginGenerate(Report(cf, P_GENERATING))
    ELSE IF cf.c.i < maxPolls /\ cf.c.fileState = FS_FAILED
    THEN FailUpload(cf, Err(0, MsgStateFailed))
    ELSE IF cf.c.i < maxPolls
    THEN [cf EXCEPT !.c.pc = "pollWait"]
    ELSE FailUpload(cf, Err(0, MsgTimeout))

\* variant of lines 55-68: the state is not checked after the loop
PollLoopNoStateCheck(cf) ==
    IF cf.c.i < maxPolls /\ cf.c.fileState = FS_ACTIVE
    THEN BeginGenerate(Report(cf, P_GENERATING))
    ELSE IF cf.c.i < maxPolls /\ cf.c.fileState = FS_FAILED
    THEN FailUpload(cf, Err(0, MsgStateFailed))
    ELSE IF cf.c.i < maxPolls
    THEN [cf EXCEPT !.c.pc = "pollWait"]
    ELSE BeginGenerate(Report(cf, P_GENERATING))

\* uploadAndWaitForVideo lines 55-70 from the loop head, then
\* analyzeContent line 118
PollLoop(cf) ==
    IF cf.c.i < maxPolls /\ cf.c.fileState = FS_ACTIVE
    THEN BeginGenerate(Report(cf, P_GENERATING))
    ELSE IF cf.c.i < maxPolls /\ cf.c.fileState = FS_FAILED
    THEN FailUpload(cf, Err(0, MsgStateFailed))
    ELSE IF cf.c.i < maxPolls
    THEN [cf EXCEPT !.c.pc = "pollWait"]
    ELSE IF cf.c.fileState # FS_ACTIVE
    THEN FailUpload(cf, Err(0, MsgTimeout))
    ELSE BeginGenerate(Report(cf, P_GENERATING))

\* analyzeContent lines 104-144 up to the first await
AnalyzeContent(e, id, mimeType, fs) ==
    LET cf0 == [c |-> NewCall(id), f |-> fs]
    IN  IF GetApiKey(e) = ""
        THEN Fail(cf0, Err(0, MsgNoKey))
        ELSE IF StartsWithVideo(mimeType)
        THEN [Report(cf0, P_UPLOADING) EXCEPT !.c.pc = "upload",
                                              !.c.uploads = @ + 1,
                                              !.c.uploaded = @ \cup {id}]
        ELSE [Report(cf0, P_READING) EXCEPT !.c.pc = "read"]

\* results of ai.files.upload: an error, or a file with/without name
UploadResults ==
    [kind : {"throw"}, error : RemoteErrors, hasName : {FALSE}, state : {"NONE"}]
    \cup [kind : {"ok"}, error : {Err(0, <<>>)}, hasName : BOOLEAN, state : FileState]

\* variant of lines 41-70: the upload result is used without polling
AfterUploadNoWait(cf, res) ==
    IF res.kind = "throw" THEN FailUpload(cf, res.error)
    ELSE IF ~res.hasName THEN FailUpload(cf, Err(0, MsgNoFileInfo))
    ELSE BeginGenerate(Report([Report(cf, P_WAITING)
                                  EXCEPT !.c.fileState = res.state, !.c.i = 0],
                              P_GENERATING))

\* variant of lines 41-53: the file of another upload is kept
AfterUploadSharedHandle(cf, res) ==
    IF res.kind = "throw" THEN FailUpload(cf, res.error)
    ELSE IF ~res.hasName THEN FailUpload(cf, Err(0, MsgNoFileInfo))
    ELSE PollLoop([Report(cf, P_WAITING) EXCEPT !.c.fileState = res.state,
                                                !.c.i = 0,
                                                !.c.handle = Some(HandleOf(0))])

\* uploadAndWaitForVideo lines 41-53 after ai.files.upload settles; the
\* file returned is the one created for the payload this call uploaded
AfterUpload(cf, res) ==
    IF res.kind = "throw" THEN FailUpload(cf, res.error)
    ELSE IF ~res.hasName THEN FailUpload(cf, Err(0, MsgNoFileInfo))
    ELSE PollLoop([Report(cf, P_WAITING) EXCEPT !.c.fileState = res.state,
                                                !.c.i = 0,
                                                !.c.handle = Some(HandleOf(cf.c.id))])

\* uploadAndWaitForVideo line 62 -> 63: the timer fired, ai.files.get called
AfterPollTimer(cf) ==
    [cf EXCEPT !.c.pc = "pollGet", !.c.polls = @ + 1,
               !.c.polled = @ \cup Held(cf.c)]

\* results of ai.files.get
PollResults ==
    [kind : {"throw"}, error : RemoteErrors, state : {"NONE"}]
    \cup [kind : {"ok"}, error : {Err(0, <<>>)}, state : FileState]

\* uploadAndWaitForVideo line 63 after ai.files.get settles, i++, loop head
AfterPollGet(cf, res) ==
    IF res.kind = "throw" THEN FailUpload(cf, res.error)
    ELSE PollLoop([cf EXCEPT !.c.fileState = res.state, !.c.i = @ + 1])

\* variant of lines 133-143: line 143 is missing
AfterReadNoReport(cf, ok) ==
    IF ok THEN BeginGenerate(cf)
    ELSE Fail(cf, Err(0, MsgFileReader))

\* analyzeContent lines 133-143 after fileToGenerativePart settles
AfterRead(cf, ok) ==
    IF ok THEN BeginGenerate(Report(cf, P_ANALYZING))
    ELSE Fail(cf, Err(0, MsgFileReader))

\* results of ai.models.generateContent
GenerateResults ==
    [kind : {"throw"}, error : RemoteErrors, text : {None}]
    \cup [kind : {"ok"}, error : {Err(0, <<>>)}, text : ResponseTexts]

\* retryOperation lines 83-95 after the operation settles
AfterGenerate(cf, res) ==
    IF res.kind = "ok" THEN Succeed(cf, res.text)
    ELSE IF ShouldRetry(cf.c.retries, res.error)
    THEN [cf EXCEPT !.c.pc = "retryWait", !.c.waits = Append(@, cf.c.delay)]
    ELSE Fail(cf, res.error)

\* retryOperation line 92: the timer fired, the recursive call
AfterRetryTimer(cf) ==
    Submit([cf EXCEPT !.c.retries = NextRetries(@), !.c.delay = NextDelay(@)])

\* ------------------------------------------------ the batch coordinator --
\* a run: one invocation of processQueue that passed the guard and has not
\* returned yet.  queue is the array computed at line 100 (id and file.type
\* of each fileItem), idx the position of the for loop, c the
\* analyzeContent call being awaited, started / settled the ids for which
\* analyzeContent was invoked / has settled, in order.

\* what a render's handlers read of the state: the flag, and of each file
\* its id, file.type and status
View(fs, flag) ==
    [files |-> IF fs = <<>> THEN <<>>
               ELSE [k \in 1..Len(fs) |->
                        [id |-> fs[k].id, type |-> fs[k].type, status |-> fs[k].status]],
     isQueueProcessing |-> flag]

CurrentState == View(files, isQueueProcessing)

\* a render commits the component state; its closures are the handlers
Commit == shown' = View(files', isQueueProcessing')

\* a settled promise whose continuation has not run yet
MicrotaskPending == \E r \in DOMAIN runs : runs[r].c.pc = "settled"

Ids(fs) == {fs[k].id : k \in DOMAIN fs}

FileOf(fs, id) == fs[CHOOSE k \in DOMAIN fs : fs[k].id = id]

NewRun(queue) ==
    [queue |-> queue, idx |-> 0, c |-> DoneCall, started |-> <<>>, settled |-> <<>>]

\* processQueue lines 102-110: one loop iteration up to the await
BeginItem(run, k, fs) ==
    LET fileItem == run.queue[k]
        cf == AnalyzeContent(env, fileItem.id, MimeOf(mode, fileItem),
                             SetProcessing(fs, fileItem.id))
    IN  [run |-> [run EXCEPT !.idx = k, !.c = cf.c,
                             !.started = Append(@, fileItem.id)],
         f |-> cf.f]

\* variant of line 102: the loop stops one element early
HasNextOffByOne(run) == run.idx + 1 < Len(run.queue)

\* variant of line 102: the loop stops after a failed item
HasNextUnlessFailed(run) ==
    run.idx < Len(run.queue) /\ run.c.outcome.kind # "throw"

\* processQueue line 102: the for loop has a next element
HasNext(run) == run.idx < Len(run.queue)

\* the number of files enqueued over a behaviour is bounded per mode
FileLimit == IF mode = "pdf" THEN MaxFiles ELSE MaxVideoFiles

\* file.type of the files the chooser offers (accept=".pdf" / "video/*")
FileType == IF mode = "pdf" THEN MimePdf ELSE MimeVideo

\* handleFilesSelected (lines 70-84) with n files chosen; ids are fresh
HandleFilesSelected(n) ==
    /\ ~MicrotaskPending
    /\ nextId + n - 1 <= FileLimit
    /\ LET newFiles == [k \in 1..n |-> NewFile(nextId + k - 1, FileType)]
       IN  files' = files \o newFiles
    /\ nextId' = nextId + n
    /\ last' = "other"
    /\ UNCHANGED <<mode, env, isQueueProcessing, runs, rt, web>>
    /\ Commit

\* removeFile (lines 86-89), the X button of a rendered row
RemoveFile(id) ==
    /\ ~MicrotaskPending
    /\ id \in Ids(shown.files)
    /\ files' = SelectSeq(files, LAMBDA f : f.id # id)
    /\ last' = "other"
    /\ UNCHANGED <<mode, env, isQueueProcessing, runs, nextId, rt, web>>
    /\ Commit

\* clearAll (lines 91-94)
ClearAll ==
    /\ ~MicrotaskPending
    /\ files' = <<>>
    /\ last' = "other"
    /\ UNCHANGED <<mode, env, isQueueProcessing, runs, nextId, rt, web>>
    /\ Commit

\* the start button (lines 205-212) is enabled
StartEnabled == ~shown.isQueueProcessing /\ Len(shown.files) > 0

\* the retry button (lines 339-351) is rendered
RetryShown == \E id \in Ids(shown.files) : FileOf(shown.files, id).status = FAILED

\* processQueue (lines 96-128) up to its first await, called from `button`
ProcessQueue(button) ==
    /\ ~MicrotaskPending
    /\ last' = button
    /\ UNCHANGED <<mode, env, nextId, rt, web>>
    /\ IF ~GuardPasses(shown.isQueueProcessing)
       THEN UNCHANGED <<files, isQueueProcessing, runs, shown>>
       ELSE /\ Len(runs) < MaxRuns
            /\ LET queue == SelectQueue(shown.files)
                   b == BeginItem(NewRun(queue), 1, files)
               IN  IF queue = <<>>
                   THEN /\ isQueueProcessing' = FALSE
                        /\ UNCHANGED <<files, runs>>
                   ELSE /\ runs' = Append(runs, b.run)
                        /\ isQueueProcessing' = TRUE
                        /\ files' = b.f
            /\ Commit

StartClick == StartEnabled /\ ProcessQueue("start")

RetryClick == RetryShown /\ ProcessQueue("retry")

\* a step of the awaited analyzeContent call of run r
CallStep(r, cf) ==
    /\ runs' = [runs EXCEPT ![r].c = cf.c]
    /\ files' = cf.f
    /\ last' = "other"
    /\ UNCHANGED <<mode, env, isQueueProcessing, shown, nextId, rt, web>>

Cf(r) == [c |-> runs[r].c, f |-> files]

UploadReturns(r, res) ==
    /\ r \in DOMAIN runs
    /\ ~MicrotaskPending
    /\ runs[r].c.pc = "upload"
    /\ CallStep(r, AfterUpload(Cf(r), res))

PollTimer(r) ==
    /\ r \in DOMAIN runs
    /\ ~MicrotaskPending
    /\ runs[r].c.pc = "pollWait"
    /\ CallStep(r, AfterPollTimer(Cf(r)))

PollGetReturns(r, res) ==
    /\ r \in DOMAIN runs
    /\ ~MicrotaskPending
    /\ runs[r].c.pc = "pollGet"
    /\ CallStep(r, AfterPollGet(Cf(r), res))

ReadReturns(r, ok) ==
    /\ r \in DOMAIN runs
    /\ ~MicrotaskPending
    /\ runs[r].c.pc = "read"
    /\ CallStep(r, AfterRead(Cf(r), ok))

GenerateReturns(r, res) ==
    /\ r \in DOMAIN runs
    /\ ~MicrotaskPending
    /\ runs[r].c.pc = "generate"
    /\ CallStep(r, AfterGenerate(Cf(r), res))

RetryTimer(r) ==
    /\ r \in DOMAIN runs
    /\ ~MicrotaskPending
    /\ runs[r].c.pc = "retryWait"
    /\ CallStep(r, AfterRetryTimer(Cf(r)))

\* runs without its r-th element
Without(rs, r) == SubSeq(rs, 1, r - 1) \o SubSeq(rs, r + 1, Len(rs))

\* variant of lines 112-127: line 127 is missing
ResumeKeepsFlag(r) ==
    /\ r \in DOMAIN runs
    /\ runs[r].c.pc = "settled"
    /\ LET id == runs[r].c.id
           out == runs[r].c.outcome
           fs1 == IF out.kind = "return"
                  THEN SetCompleted(files, id, out.value)
                  ELSE SetFailed(files, id, out.value)
           run == [runs[r] EXCEPT !.settled = Append(@, id)]
           b == BeginItem(run, run.idx + 1, fs1)
       IN  IF HasNext(run)
           THEN /\ runs' = [runs EXCEPT ![r] = b.run]
                /\ files' = b.f
                /\ last' = "other"
           ELSE /\ runs' = Without(runs, r)
                /\ files' = fs1
                /\ last' = "finish"
    /\ UNCHANGED <<mode, env, isQueueProcessing, shown, nextId, rt, web>>

\* processQueue lines 112-127: the continuation after the await
Resume(r) ==
    /\ r \in DOMAIN runs
    /\ runs[r].c.pc = "settled"
    /\ LET id == runs[r].c.id
           out == runs[r].c.outcome
           fs1 == IF out.kind = "return"
                  THEN SetCompleted(files, id, out.value)
                  ELSE SetFailed(files, id, out.value)
           run == [runs[r] EXCEPT !.settled = Append(@, id)]
           b == BeginItem(run, run.idx + 1, fs1)
       IN  IF HasNext(run)
           THEN /\ runs' = [runs EXCEPT ![r] = b.run]
                /\ files' = b.f
                /\ last' = "other"
                /\ UNCHANGED isQueueProcessing
           ELSE /\ runs' = Without(runs, r)
                /\ files' = fs1
                /\ last' = "finish"
                /\ isQueueProcessing' = FALSE
    /\ UNCHANGED <<mode, env, shown, nextId, rt, web>>

\* React commits the updates queued by async continuations
Render ==
    /\ ~MicrotaskPending
    /\ shown # CurrentState
    /\ shown' = CurrentState
    /\ last' = "other"
    /\ UNCHANGED <<mode, env, files, isQueueProcessing, runs, nextId, rt, web>>

\* ------------------------------------------------- retryOperation alone --
\* rt: one retryOperation(operation, retries0, delay0) invocation; calls
\* lists the outcomes of the operation's invocations, waits the delays.
RetryDelays == {DefaultDelay, 250}

RetryErrors ==
    RemoteErrors \cup { Err(0, <<"xhr error">>), Err(0, <<"TypeError:", "fetch failed">>),
                        Err(500, <<"internal">>), Err(499, <<"client closed">>),
                        Err(400, <<"got status:", "400", "invalid argument">>) }

RetryOutcomes ==
    [kind : {"throw"}, error : RetryErrors, value : {""}]
    \cup [kind : {"ok"}, error : {Err(0, <<>>)}, value : {"v1", "v2"}]

RtIdle ==
    [pc |-> "idle", retries0 |-> 0, delay0 |-> 0, retries |-> 0, delay |-> 0,
     calls |-> <<>>, waits |-> <<>>, result |-> NoOutcome]

RtStart(retries, delay) ==
    [RtIdle EXCEPT !.pc = "call", !.retries0 = retries, !.delay0 = delay,
                   !.retries = retries, !.delay = delay]

\* retryOperation lines 82-95: the operation settles with outcome o
RtSettle(o) ==
    /\ rt.pc = "call"
    /\ rt' = IF o.kind = "ok"
             THEN [rt EXCEPT !.pc = "done", !.calls = Append(@, o),
                             !.result = Returned(o.value)]
             ELSE IF ShouldRetry(rt.retries, o.error)
             THEN [rt EXCEPT !.pc = "wait", !.calls = Append(@, o),
                             !.waits = Append(@, rt.delay)]
             ELSE [rt EXCEPT !.pc = "done", !.calls = Append(@, o),
                             !.result = Thrown(o.error)]
    /\ UNCHANGED <<batchVars, web>>

\* retryOperation lines 91-92: the timer fires, the recursive call
RtTimer ==
    /\ rt.pc = "wait"
    /\ rt' = [rt EXCEPT !.pc = "call", !.retries = NextRetries(@),
                        !.delay = NextDelay(@)]
    /\ UNCHANGED <<batchVars, web>>

\* --------------------------------------------- one ingestion call alone --
\* one file is enqueued and the start button pressed once; the remote API
\* answers with any of the errors and replies below
CallErrors ==
    RemoteErrors \cup { Err(0, <<"TypeError:", "fetch failed">>),
                        Err(400, <<"got status:", "400", "invalid argument">>),
                        Err(403, <<"got status:", "403", "permission denied">>),
                        Err(413, <<"got status:", "413", "payload too large">>),
                        Err(429, <<"quota exceeded">>) }

CallResponseTexts == { None, Some(<<>>), Some(<<"OK">>) }

CallUploadResults ==
    [kind : {"throw"}, error : CallErrors, hasName : {FALSE}, state : {"NONE"}]
    \cup [kind : {"ok"}, error : {Err(0, <<>>)}, hasName : BOOLEAN, state : FileState]

CallPollResults ==
    [kind : {"throw"}, error : CallErrors, state : {"NONE"}]
    \cup [kind : {"ok"}, error : {Err(0, <<>>)}, state : FileState]

CallGenerateResults ==
    [kind : {"throw"}, error : CallErrors, text : {None}]
    \cup [kind : {"ok"}, error : {Err(0, <<>>)}, text : CallResponseTexts]

\* handleFilesSelected with the one file of this specification
CallEnqueue == nextId = 1 /\ HandleFilesSelected(1)

\* ------------------------------------------------------- specifications --
BatchInit ==
    /\ files = <<>>
    /\ isQueueProcessing = FALSE
    /\ shown = [files |-> <<>>, isQueueProcessing |-> FALSE]
    /\ runs = <<>>
    /\ nextId = 1
    /\ last = "other"

\* ================================================ WebAnalyzerPage.tsx ====
\* One mounted instance of the page, followed until it is unmounted. The
\* text area is the input of handleStart; prompt, activeTab and selectedUrl
\* take no part in handleStart's control flow and are left out.

\* the largest number of lines typed into the text area
MaxUrls == 2

\* line 113: the wait before the hidden area is captured, in ms
RenderDelay == 2500

\* line 90: the status on which the WeChat fetch is repeated
UnprocessableStatus == 422

W_PENDING == "pending"
W_FETCHING == "fetching"
W_RENDERING == "rendering"
W_ANALYZING == "analyzing"
W_DONE == "done"
W_ERROR == "error"
WebStatus == {W_PENDING, W_FETCHING, W_RENDERING, W_ANALYZING, W_DONE, W_ERROR}

UrlPlain == "https://a.example/post"
UrlOther == "https://b.example/page"
UrlWeixin == "https://mp.weixin.qq.com/s/c"
LinePadded == "  https://a.example/post "
LineBlank == "   "

\* the lines of the text area the user may have typed
WebLines == {"", LinePadded, UrlOther, UrlWeixin}

\* String.prototype.trim on the strings of the model
Trim(s) ==
    IF s = LineBlank THEN ""
    ELSE IF s = LinePadded THEN UrlPlain
    ELSE s

\* line 52: urls.split('\n').map(u => u.trim()).filter(u => u.length > 0)
UrlList(lines) ==
    SelectSeq([k \in DOMAIN lines |-> Trim(lines[k])], LAMBDA u : u # "")

\* line 307: !urls, the text area holds the empty string
UrlsEmpty(lines) == lines = <<"">>

\* lines 83, 90: item.url.includes('mp.weixin.qq.com')
IsWeixin(url) == url = UrlWeixin

StatusText(status) == IF status = UnprocessableStatus THEN "422" ELSE "200"

MsgFetchStatus(url, status) ==
    <<"cannot get content from", url, "(Status:", StatusText(status), ")">>
MsgEmptyContent == <<"fetched content is empty,", "check that the link is valid">>
MsgFetchRejected == <<"TypeError:", "Failed to fetch">>

\* what fetch settles with: a response, or a rejection
FetchResponse(ok, status) == [rejected |-> FALSE, ok |-> ok, status |-> status]
FetchRejection == [rejected |-> TRUE, ok |-> FALSE, status |-> 0]
FetchResults ==
    {FetchResponse(TRUE, 200), FetchResponse(FALSE, UnprocessableStatus),
     FetchRejection}

\* what fetchRes.text() settles with
WebTexts == {"", LineBlank, "# markdown"}
TextResults ==
    [rejected : {FALSE}, text : WebTexts] \cup {[rejected |-> TRUE, text |-> ""]}

\* what analyzeContent settles with: its text or its mapped error message
AnalyzeResults ==
    {Returned(ResultText(t)) : t \in ResponseTexts}
    \cup {Thrown(UserMessage(e)) : e \in RemoteErrors}

\* lines 58-63: the placeholder of one url; error and isFallback are absent
NewResult(url) ==
    [url |-> url, originalMarkdown |-> "", analysis |-> <<>>,
     status |-> W_PENDING, error |-> None, isFallback |-> None]

\* { ...r, ...updates }
Merge(r, updates) ==
    [f \in DOMAIN r |-> IF f \in DOMAIN updates THEN updates[f] ELSE r[f]]

\* variant of updateStatus: only the first entry with the url is updated
UpdateStatusFirst(rs, url, status) ==
    [k \in DOMAIN rs |->
        IF rs[k].url = url /\ \A j \in 1..(k - 1) : rs[j].url # url
        THEN [rs[k] EXCEPT !.status = status]
        ELSE rs[k]]

\* updateStatus lines 182-184
UpdateStatus(rs, url, status) ==
    [k \in DOMAIN rs |->
        IF rs[k].url = url THEN [rs[k] EXCEPT !.status = status] ELSE rs[k]]

\* variant of updateResult: every entry is updated
UpdateResultAll(rs, url, updates) ==
    [k \in DOMAIN rs |-> Merge(rs[k], updates)]

\* updateResult lines 186-188
UpdateResult(rs, url, updates) ==
    [k \in DOMAIN rs |->
        IF rs[k].url = url THEN Merge(rs[k], updates) ELSE rs[k]]

\* the page after construction; list, i, markdown and usedFallback are the
\* locals of the handleStart invocation in flight (urls of newResults, loop
\* index from 1, markdownContent, usedFallback), pc the await it is parked at
WebInit ==
    [mounted |-> TRUE, isProcessing |-> FALSE, results |-> <<>>,
     hiddenContent |-> "", pc |-> "idle", list |-> <<>>, i |-> 0,
     markdown |-> "", usedFallback |-> FALSE]

\* lines 176-179: after the loop
WebFinish(w) ==
    [w EXCEPT !.pc = "idle", !.list = <<>>, !.i = 0,
              !.markdown = "", !.usedFallback = FALSE,
              !.isProcessing = IF w.mounted THEN FALSE ELSE @,
              !.hiddenContent = IF w.mounted THEN "" ELSE @]

\* lines 66-86: the loop head for the next url, up to the await of fetch
WebLoop(w) ==
    LET j == w.i + 1
    IN  IF j > Len(w.list) \/ ~w.mounted
        THEN WebFinish(w)
        ELSE [w EXCEPT !.i = j, !.pc = "fetch",
                       !.markdown = "", !.usedFallback = FALSE,
                       !.results = UpdateStatus(@, w.list[j], W_FETCHING)]

\* lines 168-173: the catch of one url, then the next iteration
WebCatch(w, message) ==
    WebLoop(IF w.mounted
            THEN [w EXCEPT !.results =
                     UpdateResult(@, w.list[w.i],
                                  [status |-> W_ERROR, error |-> Some(message)])]
            ELSE w)

\* lines 95: a response that is not the repeated WeChat case
AfterFetch(w, res) ==
    IF ~res.ok
    THEN WebCatch(w, MsgFetchStatus(w.list[w.i], res.status))
    ELSE [w EXCEPT !.pc = "text"]

\* handleStart lines 51-86: the click on the start button with the text
\* area holding the given lines (button line 306-307)
HandleStart(lines) ==
    /\ web.mounted
    /\ ~web.isProcessing
    /\ ~UrlsEmpty(lines)
    /\ LET urlList == UrlList(lines)
       IN  web' = IF urlList = <<>>
                  THEN web
                  ELSE WebLoop([web EXCEPT
                           !.isProcessing = TRUE,
                           !.results = [k \in DOMAIN urlList |-> NewResult(urlList[k])],
                           !.list = urlList,
                           !.i = 0])
    /\ UNCHANGED <<batchVars, rt>>

\* lines 86-95: the first fetch settles
FetchReturns(res) ==
    /\ web.pc = "fetch"
    /\ web' = IF res.rejected
              THEN WebCatch(web, MsgFetchRejected)
              ELSE IF ~res.ok /\ res.status = UnprocessableStatus
                      /\ IsWeixin(web.list[web.i])
              THEN [web EXCEPT !.pc = "refetch"]
              ELSE AfterFetch(web, res)
    /\ UNCHANGED <<batchVars, rt>>

\* lines 93-95: the fetch repeated without the selector settles
RefetchReturns(res) ==
    /\ web.pc = "refetch"
    /\ web' = IF res.rejected
              THEN WebCatch(web, MsgFetchRejected)
              ELSE AfterFetch(web, res)
    /\ UNCHANGED <<batchVars, rt>>

\* lines 97-113: fetchRes.text() settles
TextReturns(res) ==
    /\ web.pc = "text"
    /\ web' = IF res.rejected
              THEN WebCatch(web, MsgFetchRejected)
              ELSE IF Trim(res.text) = ""
              THEN WebCatch(web, MsgEmptyContent)
              ELSE IF ~web.mounted
              THEN WebFinish(web)
              ELSE [web EXCEPT
                       !.results = UpdateResult(@, web.list[web.i],
                                      [originalMarkdown |-> res.text,
                                       status |-> W_RENDERING]),
                       !.hiddenContent = res.text,
                       !.markdown = res.text,
                       !.pc = "timer"]
    /\ UNCHANGED <<batchVars, rt>>

\* lines 113-122: the timer of RenderDelay fires; the hidden container is
\* rendered whenever the page is mounted
RenderTimer ==
    /\ web.pc = "timer"
    /\ web' = IF ~web.mounted THEN WebFinish(web)
              ELSE [web EXCEPT !.pc = "canvas"]
    /\ UNCHANGED <<batchVars, rt>>

\* lines 122-159: html2canvas and jsPDF succeed (ok) or throw, up to the
\* await of analyzeContent; React drops the update of an unmounted page
CanvasReturns(ok) ==
    /\ web.pc = "canvas"
    /\ web' = [web EXCEPT
                  !.usedFallback = ~ok,
                  !.results = IF web.mounted
                              THEN UpdateStatus(@, web.list[web.i], W_ANALYZING)
                              ELSE @,
                  !.pc = "analyze"]
    /\ UNCHANGED <<batchVars, rt>>

\* lines 159-165: analyzeContent settles
AnalyzeReturns(res) ==
    /\ web.pc = "analyze"
    /\ web' = IF res.kind = "throw"
              THEN WebCatch(web, res.value)
              ELSE IF ~web.mounted
              THEN WebFinish(web)
              ELSE WebLoop([web EXCEPT !.results =
                       UpdateResult(@, web.list[web.i],
                                    [analysis |-> res.value,
                                     status |-> W_DONE,
                                     isFallback |-> Some(web.usedFallback)])])
    /\ UNCHANGED <<batchVars, rt>>

\* lines 46-48: the page is unmounted
Unmount ==
    /\ web.mounted
    /\ web' = [web EXCEPT !.mounted = FALSE]
    /\ UNCHANGED <<batchVars, rt>>

WebLineSeqs == UNION {[1..n -> WebLines] : n \in 1..MaxUrls}

WebNext ==
    \/ \E lines \in WebLineSeqs : HandleStart(lines)
    \/ \E res \in FetchResults : FetchReturns(res)
    \/ \E res \in FetchResults : RefetchReturns(res)
    \/ \E res \in TextResults : TextReturns(res)
    \/ RenderTimer
    \/ \E ok \in BOOLEAN : CanvasReturns(ok)
    \/ \E res \in AnalyzeResults : AnalyzeReturns(res)
    \/ Unmount

Init ==
    /\ mode \in {"pdf", "video"}
    /\ env \in EnvSet
    /\ BatchInit
    /\ rt = RtIdle
    /\ web = WebInit

Next ==
    \/ \E n \in 1..MaxFiles : HandleFilesSelected(n)
    \/ \E id \in 1..MaxFiles : RemoveFile(id)
    \/ ClearAll
    \/ StartClick
    \/ RetryClick
    \/ \E r \in 1..MaxRuns : \E res \in UploadResults : UploadReturns(r, res)
    \/ \E r \in 1..MaxRuns : PollTimer(r)
    \/ \E r \in 1..MaxRuns : \E res \in PollResults : PollGetReturns(r, res)
    \/ \E r \in 1..MaxRuns : \E ok \in BOOLEAN : ReadReturns(r, ok)
    \/ \E r \in 1..MaxRuns : \E res \in GenerateResults : GenerateReturns(r, res)
    \/ \E r \in 1..MaxRuns : RetryTimer(r)
    \/ \E r \in 1..MaxRuns : Resume(r)
    \/ Render

Spec == Init /\ [][Next]_vars

RetryInit ==
    /\ mode = "pdf"
    /\ env = [defined |-> TRUE, GEMINI_API_KEY |-> "g", API_KEY |-> ""]
    /\ BatchInit
    /\ rt \in {RtStart(r, d) : r \in 0..MaxRetries, d \in RetryDelays}
    /\ web = WebInit

RetryNext ==
    \/ \E o \in RetryOutcomes : RtSettle(o)
    \/ RtTimer

SpecRetry == RetryInit /\ [][RetryNext]_vars

\* every remote call, file read and timer eventually returns, every
\* continuation eventually runs and React eventually renders; nothing is
\* assumed about the user
Fairness ==
    /\ WF_vars(\E r \in 1..MaxRuns : \E res \in UploadResults : UploadReturns(r, res))
    /\ WF_vars(\E r \in 1..MaxRuns : PollTimer(r))
    /\ WF_vars(\E r \in 1..MaxRuns : \E res \in PollResults : PollGetReturns(r, res))
    /\ WF_vars(\E r \in 1..MaxRuns : \E ok \in BOOLEAN : ReadReturns(r, ok))
    /\ WF_vars(\E r \in 1..MaxRuns : \E res \in GenerateResults : GenerateReturns(r, res))
    /\ WF_vars(\E r \in 1..MaxRuns : RetryTimer(r))
    /\ WF_vars(\E r \in 1..MaxRuns : Resume(r))
    /\ WF_vars(Render)

\* the fair specification enqueues one file less than Spec in pdf mode and
\* a single video
LiveFileLimit == IF mode = "pdf" THEN MaxFiles - 1 ELSE 1

LiveEnqueue(n) == nextId + n - 1 <= LiveFileLimit /\ HandleFilesSelected(n)

LiveNext ==
    \/ \E n \in 1..MaxFiles : LiveEnqueue(n)
    \/ \E id \in 1..MaxFiles : RemoveFile(id)
    \/ ClearAll
    \/ StartClick
    \/ RetryClick
    \/ \E r \in 1..MaxRuns : \E res \in UploadResults : UploadReturns(r, res)
    \/ \E r \in 1..MaxRuns : PollTimer(r)
    \/ \E r \in 1..MaxRuns : \E res \in PollResults : PollGetReturns(r, res)
    \/ \E r \in 1..MaxRuns : \E ok \in BOOLEAN : ReadReturns(r, ok)
    \/ \E r \in 1..MaxRuns : \E res \in GenerateResults : GenerateReturns(r, res)
    \/ \E r \in 1..MaxRuns : RetryTimer(r)
    \/ \E r \in 1..MaxRuns : Resume(r)
    \/ Render

SpecLive == Init /\ [][LiveNext]_vars /\ Fairness

CallNext ==
    \/ CallEnqueue
    \/ StartClick
    \/ \E res \in CallUploadResults : UploadReturns(1, res)
    \/ PollTimer(1)
    \/ \E res \in CallPollResults : PollGetReturns(1, res)
    \/ \E ok \in BOOLEAN : ReadReturns(1, ok)
    \/ \E res \in CallGenerateResults : GenerateReturns(1, res)
    \/ RetryTimer(1)
    \/ Resume(1)
    \/ Render

SpecCall == Init /\ [][CallNext]_vars

WebSpecInit ==
    /\ mode = "pdf"
    /\ env = [defined |-> TRUE, GEMINI_API_KEY |-> "g", API_KEY |-> ""]
    /\ BatchInit
    /\ rt = RtIdle
    /\ web = WebInit

SpecWeb == WebSpecInit /\ [][WebNext]_vars

TypeOK ==
    /\ mode \in {"pdf", "video"}
    /\ isQueueProcessing \in BOOLEAN
    /\ \A k \in DOMAIN files : files[k].status \in AnalysisStatus
    /\ Len(runs) <= MaxRuns

\* ================================================================ claims ==
StatusOf(fs, id) == FileOf(fs, id).status

Terminal == {COMPLETED, FAILED}

ProcessingCount == Cardinality({k \in DOMAIN files : files[k].status = PROCESSING})

\* C1: in every reachable state at most one WorkItem has lifecycle state
\* Processing, whatever the interleaving of enqueue, remove, clear,
\* processQueue invocations (start or retry button) and ingestion steps.
C1_AtMostOneProcessing == ProcessingCount <= 1

\* a retry invocation arrived while a run was working on a later item, one
\* item is Processing and another one is not
C1_Witness ==
    /\ ProcessingCount = 1
    /\ Len(files) >= 2
    /\ last = "retry"
    /\ runs # <<>>

\* C2: a processQueue invocation (start or retry button) that arrives while
\* a run is in flight returns at the guard: it changes no WorkItem, starts
\* no run and no ingestion call, and leaves the running flag as it is.
C2_ReentrantInvocationIsNoOp ==
    [][ (runs # <<>> /\ last' \in {"start", "retry"})
          => (files' = files /\ runs' = runs
              /\ isQueueProcessing' = isQueueProcessing) ]_vars

\* the retry button was pressed while the run was at its second item or later
C2_Witness ==
    /\ last = "retry"
    /\ runs # <<>>
    /\ runs[1].idx >= 2
    /\ runs[1].c.pc \in {"read", "generate", "retryWait", "upload", "pollWait", "pollGet"}

\* the step ends run r: its awaited call had settled and processQueue
\* returns (only the continuation of a settled call can run)
EndsRun(r) == runs[r].c.pc = "settled" /\ last' = "finish"

\* C3: when a run finishes, every item it selected (Idle or Failed at its
\* start) that is still in the queue is Completed or Failed, none is Idle
\* or Processing.
C3_SelectedItemsEndTerminal ==
    [][ \A r \in DOMAIN runs :
          EndsRun(r)
            => \A k \in DOMAIN runs[r].queue :
                  runs[r].queue[k].id \in Ids(files')
                    => StatusOf(files', runs[r].queue[k].id) \in Terminal ]_vars

\* a run over at least two items has just finished, with both outcomes
C3_Witness ==
    /\ last = "finish"
    /\ \E k \in DOMAIN files : files[k].status = COMPLETED
    /\ \E k \in DOMAIN files : files[k].status = FAILED
    /\ \A k \in DOMAIN files : files[k].status \in Terminal

IsPrefix(p, q) == Len(p) <= Len(q) /\ \A k \in 1..Len(p) : p[k] = q[k]

QueueIds(run) == [k \in 1..Len(run.queue) |-> run.queue[k].id]

\* C4: a run invokes the pipeline on its items in queue (enqueue) order,
\* starts item k+1 only after item k has settled as Completed or Failed, and
\* no two ingestion calls are ever in flight together.
C4_SequentialInOrder ==
    /\ Len(runs) <= 1
    /\ \A r \in DOMAIN runs :
         LET run == runs[r]
         IN  /\ \A j, k \in DOMAIN run.queue : j < k => run.queue[j].id < run.queue[k].id
             /\ IsPrefix(run.started, QueueIds(run))
             /\ IsPrefix(run.settled, run.started)
             /\ Len(run.started) = run.idx
             /\ Len(run.started) - Len(run.settled) \in {0, 1}
             /\ \A k \in 1..Len(run.settled) :
                   run.settled[k] \in Ids(files)
                     => StatusOf(files, run.settled[k]) \in Terminal
             /\ \A k \in (Len(run.started) + 1)..Len(run.queue) :
                   run.queue[k].id \in Ids(files)
                     => StatusOf(files, run.queue[k].id) \in {IDLE, FAILED}

\* the second item of a run is being ingested, the first is terminal, a
\* third is still waiting
C4_Witness ==
    /\ runs # <<>>
    /\ Len(runs[1].queue) >= 3
    /\ runs[1].idx = 2
    /\ runs[1].c.pc = "generate"
    /\ \A k \in DOMAIN runs[1].queue : runs[1].queue[k].id \in Ids(files)

\* C5: when the ingestion of an item fails and the run has later items, the
\* run goes on: the next item is moved to Processing and analyzeContent is
\* invoked for it, starting afresh.
C5_FailureDoesNotHalt ==
    [][ \A r \in DOMAIN runs :
          (/\ runs[r].c.pc = "settled"
           /\ runs[r].c.outcome.kind = "throw"
           /\ runs[r].idx < Len(runs[r].queue))
            => LET next == runs[r].queue[runs[r].idx + 1].id
               IN  /\ Len(runs') = Len(runs)
                   /\ runs'[r].idx = runs[r].idx + 1
                   /\ runs'[r].started = Append(runs[r].started, next)
                   /\ runs'[r].c.id = next
                   /\ runs'[r].c.waits = <<>>
                   /\ runs'[r].c.submits = 0
                   /\ next \in Ids(files) => StatusOf(files', next) = PROCESSING ]_vars

\* the first item of the run failed and the second one is being ingested
C5_Witness ==
    /\ runs # <<>>
    /\ runs[1].idx = 2
    /\ runs[1].c.pc = "generate"
    /\ runs[1].settled[1] \in Ids(files)
    /\ StatusOf(files, runs[1].settled[1]) = FAILED

\* C6: when the awaited pipeline call returns, the item becomes Completed
\* with result = the returned text; when it throws, the item becomes Failed
\* with error = the thrown message and has no result text.
C6_OutcomeRecorded ==
    [][ \A r \in DOMAIN runs :
          (runs[r].c.pc = "settled" /\ runs[r].c.id \in Ids(files))
            => LET f == FileOf(files', runs[r].c.id)
                   out == runs[r].c.outcome
               IN  /\ out.kind = "return"
                        => f.status = COMPLETED /\ f.result = Some(out.value)
                   /\ out.kind = "throw"
                        => /\ f.status = FAILED
                           /\ f.error = Some(out.value)
                           /\ f.result = None ]_vars

\* a run has recorded a returned text on one item and a thrown message on
\* another
C6_Witness ==
    /\ \E k \in DOMAIN files :
          files[k].status = COMPLETED /\ files[k].result = Some(<<"OK">>)
    /\ \E k \in DOMAIN files :
          files[k].status = FAILED /\ files[k].error # None

Transitions(allowed) ==
    \A id \in Ids(files) \cap Ids(files') :
        \/ StatusOf(files', id) = StatusOf(files, id)
        \/ <<StatusOf(files, id), StatusOf(files', id)>> \in allowed

\* C7 as stated: the only transitions are Idle -> Processing, Processing ->
\* Completed, Processing -> Failed and Failed -> Idle.
C7_Claimed ==
    [][ Transitions({<<IDLE, PROCESSING>>, <<PROCESSING, COMPLETED>>,
                     <<PROCESSING, FAILED>>, <<FAILED, IDLE>>}) ]_vars

\* C7 amended: the only transitions are Idle -> Processing, Failed ->
\* Processing (a Failed item selected by a later processQueue run),
\* Processing -> Completed and Processing -> Failed; a Completed item never
\* leaves Completed and no item returns to Idle.
C7_Transitions ==
    [][ Transitions({<<IDLE, PROCESSING>>, <<FAILED, PROCESSING>>,
                     <<PROCESSING, COMPLETED>>, <<PROCESSING, FAILED>>}) ]_vars

\* a Failed item has been selected again and is Processing, next to a
\* Completed item that stayed Completed
C7_Witness ==
    /\ \E k \in DOMAIN files :
          files[k].status = PROCESSING /\ files[k].error # None
    /\ \E k \in DOMAIN files : files[k].status = COMPLETED

\* neither GEMINI_API_KEY nor API_KEY is set
NoCredential == ~env.defined \/ (env.GEMINI_API_KEY = "" /\ env.API_KEY = "")

\* C8 as stated: with the credential missing no WorkItem is moved to
\* Processing and the configuration error is not recorded item by item.
C8_Claimed ==
    NoCredential
      => \A k \in DOMAIN files :
            /\ files[k].status \notin {PROCESSING, FAILED}
            /\ files[k].error = None

\* C9: with no credential, analyzeContent rejects with the configuration
\* message without suspending: no upload, poll or submission call, no
\* progress report, no retry wait.
C9_NoKeyFailsAtOnce ==
    NoCredential
      => \A r \in DOMAIN runs :
            /\ runs[r].c.pc = "settled"
            /\ runs[r].c.outcome = Thrown(MsgNoKey)
            /\ runs[r].c.uploads = 0
            /\ runs[r].c.polls = 0
            /\ runs[r].c.submits = 0
            /\ runs[r].c.waits = <<>>
            /\ runs[r].c.reported = <<>>

\* analyzeContent has been invoked with no credential configured
C9_Witness ==
    /\ NoCredential
    /\ runs # <<>>

RECURSIVE Pow2(_)
Pow2(n) == IF n = 0 THEN 1 ELSE 2 * Pow2(n - 1)

RECURSIVE SumSeq(_)
SumSeq(q) == IF q = <<>> THEN 0 ELSE q[1] + SumSeq(Tail(q))

Transient(o) == o.kind = "throw" /\ IsRetryable(o.error)

\* the number of times the retry timer has fired
RtRetried == IF rt.pc = "wait" THEN Len(rt.waits) - 1 ELSE Len(rt.waits)

\* C10: after a transient failure with retries remaining the wrapper waits
\* the current delay and retries with the delay doubled and the retry count
\* decremented; with retries=2 and an operation that fails transiently
\* twice and then succeeds it returns that value after exactly three calls,
\* having waited delay and then 2*delay (delay + 2*delay in total).
C10_RetryBackoff ==
    /\ \A k \in 1..Len(rt.waits) :
          /\ rt.waits[k] = rt.delay0 * Pow2(k - 1)
          /\ Transient(rt.calls[k])
    /\ rt.retries = rt.retries0 - RtRetried
    /\ rt.delay = rt.delay0 * Pow2(RtRetried)
    /\ rt.pc = "wait" => rt.retries > 0
    /\ (/\ rt.retries0 = 2
        /\ Len(rt.calls) >= 2
        /\ Transient(rt.calls[1])
        /\ Transient(rt.calls[2]))
         => /\ rt.pc = "done" => Len(rt.calls) = 3
            /\ (Len(rt.calls) = 3 /\ rt.calls[3].kind = "ok")
                 => /\ rt.pc = "done"
                    /\ rt.result = Returned(rt.calls[3].value)
                    /\ rt.waits = <<rt.delay0, 2 * rt.delay0>>
                    /\ SumSeq(rt.waits) = rt.delay0 + 2 * rt.delay0

\* retries=2, two transient failures, success on the third call
C10_Witness ==
    /\ rt.retries0 = 2
    /\ rt.pc = "done"
    /\ Len(rt.calls) = 3
    /\ rt.calls[3].kind = "ok"
    /\ rt.result.kind = "return"

\* the transient signature of section 4.1: a server-error status or one of
\* the network-error texts
TransientSignature(error) ==
    \/ error.status >= 500
    \/ Includes(error.message, <<"xhr error">>)
    \/ Includes(error.message, <<"fetch failed">>)

Permanent(o) == o.kind = "throw" /\ ~TransientSignature(o.error)

\* C11: an attempt that fails with a permanent error (no status >= 500, no
\* transient text) is the wrapper's last attempt, on the first attempt as
\* on a later one with retries remaining: no wait follows it and the
\* wrapper rejects with that very error.
C11_PermanentNotRetried ==
    \A k \in 1..Len(rt.calls) :
        Permanent(rt.calls[k])
          => /\ k = Len(rt.calls)
             /\ rt.pc = "done"
             /\ rt.result = Thrown(rt.calls[k].error)
             /\ Len(rt.waits) = k - 1
             /\ k = 1 => rt.waits = <<>>

\* a transient failure was retried, the second attempt failed permanently
\* and the wrapper stopped although a retry was left
C11_Witness ==
    /\ rt.pc = "done"
    /\ Len(rt.calls) = 2
    /\ Transient(rt.calls[1])
    /\ Permanent(rt.calls[2])
    /\ rt.retries > 0
    /\ rt.result = Thrown(rt.calls[2].error)

\* C12: with retries = r the operation is invoked at most r+1 times (once
\* for r = 0, at most twice for the default r = 1); when every attempt
\* fails transiently the wrapper makes exactly r+1 attempts and rejects
\* with the error of the last one.
C12_AttemptsBounded ==
    /\ Len(rt.calls) <= rt.retries0 + 1
    /\ rt.retries0 = DefaultRetries => Len(rt.calls) <= 2
    /\ (rt.retries0 = 0 /\ rt.pc = "done") => Len(rt.calls) = 1
    /\ (rt.pc = "done" /\ \A k \in 1..Len(rt.calls) : Transient(rt.calls[k]))
         => /\ Len(rt.calls) = rt.retries0 + 1
            /\ rt.result = Thrown(rt.calls[Len(rt.calls)].error)

\* the default single retry is used up by two different transient errors
C12_Witness ==
    /\ rt.retries0 = DefaultRetries
    /\ rt.pc = "done"
    /\ Len(rt.calls) = 2
    /\ Transient(rt.calls[1])
    /\ Transient(rt.calls[2])
    /\ rt.calls[1].error # rt.calls[2].error
    /\ rt.result = Thrown(rt.calls[2].error)

\* the awaited analyzeContent call of run r failed
Failed(c) == c.pc = "settled" /\ c.outcome.kind = "throw"

\* the call failed because of a transient error raised by a remote call
FailedTransiently(c) ==
    Failed(c) /\ c.cause # <<>> /\ TransientSignature(c.cause[1])

\* C13 as stated: a transient error of any remote call (upload, status
\* poll, submission) is surfaced only after the retry wrapper has retried.
C13_Claimed ==
    \A r \in DOMAIN runs :
        FailedTransiently(runs[r].c) => runs[r].c.waits # <<>>

\* C13 amended: only the submission call goes through the retry wrapper.  A
\* call that fails with a transient error of the submission has waited the
\* default delay once and submitted twice; a transient error of the upload
\* or of a status poll is surfaced at once, wrapped as an upload failure,
\* with no wait, no second attempt and no submission.
C13_OnlySubmissionRetried ==
    \A r \in DOMAIN runs :
        LET c == runs[r].c
        IN  FailedTransiently(c)
              => IF c.submits > 0
                 THEN /\ c.waits = <<DefaultDelay>>
                      /\ c.submits = DefaultRetries + 1
                      /\ Len(c.cause) = 1
                 ELSE /\ c.waits = <<>>
                      /\ c.uploads = 1
                      /\ c.polls <= maxPolls
                      /\ c.cause = <<c.cause[1], WrapUploadError(c.cause[1])>>

\* a status poll raised a transient error and the call failed with it
\* without any retry
C13_Witness ==
    /\ runs # <<>>
    /\ FailedTransiently(runs[1].c)
    /\ runs[1].c.polls >= 1
    /\ runs[1].c.submits = 0
    /\ runs[1].c.waits = <<>>

\* the call is suspended in the poll loop
Polling(c) == c.pc \in {"pollWait", "pollGet"}

\* C14: the poll ends as soon as a poll (or the upload result) shows
\* Active, on the 60th poll as on an earlier one: no further poll is made
\* (with replies Processing, Processing, Active exactly 3), "generating" is
\* reported and the submission call is made; the call never fails with the
\* timeout error.
C14_ActiveEndsPoll ==
    \A r \in DOMAIN runs :
        LET c == runs[r].c
        IN  /\ Polling(c) => c.fileState # FS_ACTIVE
            /\ c.pc = "pollWait" => c.polls = c.i
            /\ c.pc = "pollGet" => c.polls = c.i + 1
            /\ c.fileState = FS_ACTIVE
                 => /\ c.polls = c.i
                    /\ c.polls <= maxPolls
                    /\ c.pc \in {"generate", "retryWait", "settled"}
                    /\ c.submits >= 1
                    /\ c.reported = <<P_UPLOADING, P_WAITING, P_GENERATING>>
                    /\ Failed(c) => ~Includes(c.outcome.value, MsgTimeout)

\* Active appeared on the 60th poll and the submission call is in flight
C14_Witness ==
    /\ runs # <<>>
    /\ runs[1].c.polls = maxPolls
    /\ runs[1].c.fileState = FS_ACTIVE
    /\ runs[1].c.pc = "generate"
    /\ runs[1].c.submits = 1

\* C15: at most 60 status polls are made per call; when the 60th poll still
\* returns Processing the call fails with the timeout message ("try again
\* later"), "generating" is never reported and no submission call is made.
C15_PollBudget ==
    \A r \in DOMAIN runs :
        LET c == runs[r].c
        IN  /\ c.polls <= maxPolls
            /\ c.i <= maxPolls
            /\ (c.i = maxPolls /\ c.fileState = FS_PROCESSING)
                 => /\ Failed(c)
                    /\ Includes(c.outcome.value, <<"try again later">>)
                    /\ c.cause[1].message = MsgTimeout
                    /\ \A k \in DOMAIN c.reported : c.reported[k] # P_GENERATING
                    /\ c.submits = 0
                    /\ c.polls = maxPolls

\* all 60 polls returned Processing and the call has failed
C15_Witness ==
    /\ runs # <<>>
    /\ runs[1].c.polls = maxPolls
    /\ runs[1].c.fileState = FS_PROCESSING
    /\ Failed(runs[1].c)

\* C16 as stated: whenever a poll (or the upload result) shows Failed, at
\* any position up to the 60th poll, the call fails at once with the
\* message containing "FAILED" and not with the timeout message, and no
\* submission call is made.
C16_Claimed ==
    \A r \in DOMAIN runs :
        LET c == runs[r].c
        IN  c.fileState = FS_FAILED
              => /\ Failed(c)
                 /\ Includes(c.outcome.value, <<"FAILED">>)
                 /\ ~Includes(c.outcome.value, <<"try again later">>)
                 /\ c.submits = 0

DocumentProgress == <<P_READING, P_ANALYZING>>

\* the messages an item can fail with when the payload is a document: the
\* credential is missing, the reader failed or the transport failed
DocumentFailures ==
    {Some(UserMessage(e)) :
        e \in RemoteErrors \cup {Err(0, MsgFileReader), Err(0, MsgNoKey)}}

\* C17: for a document payload the call reports "reading" and then
\* "analyzing", each once and both before the first submission call, and
\* makes no upload and no poll call; an item fails only when the reader or
\* the transport failed (or the credential is missing), and with a
\* transport that returns "OK" every completed item holds the result "OK".
C17_DocumentProgress ==
    mode = "pdf"
      => /\ \A r \in DOMAIN runs :
               LET c == runs[r].c
               IN  /\ c.uploads = 0
                   /\ c.polls = 0
                   /\ IsPrefix(c.reported, DocumentProgress)
                   /\ c.pc = "read" => (c.reported = <<P_READING>> /\ c.submits = 0)
                   /\ c.submits >= 1 => c.reported = DocumentProgress
                   /\ (c.pc = "settled" /\ c.outcome.kind = "return")
                        => (c.reported = DocumentProgress /\ c.outcome.value = <<"OK">>)
         /\ \A k \in DOMAIN files :
               /\ files[k].status = COMPLETED => files[k].result = Some(<<"OK">>)
               /\ files[k].status = FAILED => files[k].error \in DocumentFailures

\* three documents were processed by one run and all three are Completed
\* with the result "OK"
C17_Witness ==
    /\ mode = "pdf"
    /\ last = "finish"
    /\ Len(files) = 3
    /\ \A k \in DOMAIN files :
          /\ files[k].status = COMPLETED
          /\ files[k].result = Some(<<"OK">>)
          /\ files[k].error = None

VideoProgress == <<P_UPLOADING, P_WAITING, P_GENERATING>>

Reported(c, statusMsg) == \E k \in DOMAIN c.reported : c.reported[k] = statusMsg

\* C18: for a video payload "uploading" is reported before the upload call,
\* polling starts only after the upload returned, "generating" is reported
\* only once the upload result or a poll has shown Active, and the
\* submission call is made only after "generating".
C18_VideoOrder ==
    mode = "video"
      => \A r \in DOMAIN runs :
            LET c == runs[r].c
            IN  /\ IsPrefix(c.reported, VideoProgress)
                /\ c.uploads <= 1
                /\ c.uploads = 1 => Reported(c, P_UPLOADING)
                /\ c.pc = "upload"
                     => (c.reported = <<P_UPLOADING>> /\ c.polls = 0 /\ c.submits = 0)
                /\ (Polling(c) \/ c.polls > 0)
                     => (c.uploads = 1 /\ Reported(c, P_WAITING))
                /\ Reported(c, P_GENERATING) => c.fileState = FS_ACTIVE
                /\ c.submits >= 1 => (c.reported = VideoProgress /\ c.uploads = 1)

\* the artifact became Active on the second poll and the submission call
\* is in flight
C18_Witness ==
    /\ mode = "video"
    /\ runs # <<>>
    /\ runs[1].c.pc = "generate"
    /\ runs[1].c.polls = 2
    /\ runs[1].c.reported = VideoProgress

\* C19: when the submission succeeds the call returns the reply's text if
\* it is a non-empty string and "No response text generated." if the text
\* is absent or empty; the returned text is never empty.
C19_ResultOrFallback ==
    \A r \in DOMAIN runs :
        LET c == runs[r].c
        IN  (c.pc = "settled" /\ c.outcome.kind = "return")
              => /\ c.response # <<>>
                 /\ c.outcome.value # <<>>
                 /\ IF c.response[1] = None \/ c.response[1] = Some(<<>>)
                    THEN c.outcome.value = MsgFallback
                    ELSE c.outcome.value = c.response[1][1]

\* the submission succeeded with a reply that has no text
C19_Witness ==
    /\ runs # <<>>
    /\ runs[1].c.pc = "settled"
    /\ runs[1].c.outcome.kind = "return"
    /\ runs[1].c.response = Some(None)

\* C20: the message of the error the call throws contains the message of
\* every error it was caused by (the error a remote call or the service
\* raised and, for a video, the upload failure wrapping it), passed through
\* or appended as "[Detailed Error: ...]".
C20_DetailKept ==
    \A r \in DOMAIN runs :
        LET c == runs[r].c
        IN  Failed(c)
              => /\ c.cause # <<>>
                 /\ \A k \in DOMAIN c.cause :
                       Includes(c.outcome.value, c.cause[k].message)

\* a status poll failed with a 400 error: the user-facing text for 400
\* replaced the message and the detail was appended
C20_Witness ==
    /\ runs # <<>>
    /\ Failed(runs[1].c)
    /\ Len(runs[1].c.cause) = 2
    /\ runs[1].c.cause[1].status = 400
    /\ Includes(runs[1].c.outcome.value, Msg400)
    /\ Includes(runs[1].c.outcome.value, DetailOpen)

\* the seven error conditions of section 4.2 and the text that tells each
\* one to the user
Conditions ==
    {"credential", "413", "400", "403", "network", "remoteFailed", "timeout"}

MarkerOf(cond) ==
    CASE cond = "credential" -> MsgNoKey
      [] cond = "413" -> Msg413
      [] cond = "400" -> Msg400
      [] cond = "403" -> Msg403
      [] cond = "network" -> MsgNetwork
      [] cond = "remoteFailed" -> MsgStateFailed
      [] cond = "timeout" -> MsgTimeout

\* the condition an error raised inside the call stands for
ConditionOf(error) ==
    IF error.message = MsgNoKey THEN "credential"
    ELSE IF error.status = 413 THEN "413"
    ELSE IF error.status = 400 THEN "400"
    ELSE IF error.status = 403 THEN "403"
    ELSE IF Includes(error.message, <<"fetch failed">>) THEN "network"
    ELSE IF error.message = MsgStateFailed THEN "remoteFailed"
    ELSE IF error.message = MsgTimeout THEN "timeout"
    ELSE "other"

StartsItem(r) ==
    /\ r \in DOMAIN runs'
    /\ Len(runs') = Len(runs)
    /\ runs'[r].idx = runs[r].idx + 1

\* C22 as stated: while the queue is empty because it was cleared during a
\* run, the run invokes the pipeline for no further item: only the
\* in-flight ingestion runs to its end.
C22_Claimed ==
    [][ \A r \in DOMAIN runs : files = <<>> => ~StartsItem(r) ]_vars

\* the items whose ingestion call is awaited by a run
CurrentIds(rs) == {rs[r].c.id : r \in DOMAIN rs}

\* C23: a step changes a WorkItem (lifecycle state, progress string, result
\* or error) only if it is the item a run is processing before or after the
\* step; every other item, a Completed one included, is left as it is, and
\* no run ever selects a Completed item.
C23_OnlyCurrentItemChanges ==
    [][ /\ \A id \in Ids(files) \cap Ids(files') :
              FileOf(files', id) # FileOf(files, id)
                => /\ id \in CurrentIds(runs) \cup CurrentIds(runs')
                   /\ StatusOf(files, id) # COMPLETED
        /\ \A r \in DOMAIN runs' :
              \A k \in DOMAIN runs'[r].queue :
                  runs'[r].queue[k].status \in {IDLE, FAILED} ]_vars

\* the second item of a run has reported progress while the first one is
\* Completed and a third one is still Idle and untouched
C23_Witness ==
    /\ runs # <<>>
    /\ runs[1].idx = 2
    /\ runs[1].c.reported # <<>>
    /\ Len(files) = 3
    /\ files[1].status = COMPLETED /\ files[1].progressText = Some(P_DONE)
    /\ files[2].status = PROCESSING /\ files[2].id = runs[1].c.id
    /\ files[3].status = IDLE /\ files[3].progressText = None

\* the queue as the sequence of its item identifiers
IdSeq(fs) == IF fs = <<>> THEN <<>> ELSE [k \in 1..Len(fs) |-> fs[k].id]

\* q is p without the entry id
RemovedFrom(p, q, id) == q = SelectSeq(p, LAMBDA x : x # id)

\* C26: the sequence of item identifiers changes only by a user event that
\* leaves the runs alone: files are appended (enqueue), one entry is taken
\* out (removeFile) or the queue is emptied (clearAll); no step of
\* processQueue adds, removes or reorders entries, and an identifier that
\* has left the queue never comes back.
C26_QueueShapeKept ==
    [][ /\ IdSeq(files') # IdSeq(files)
             => /\ runs' = runs
                /\ isQueueProcessing' = isQueueProcessing
                /\ \/ IsPrefix(IdSeq(files), IdSeq(files'))
                   \/ files' = <<>>
                   \/ \E id \in Ids(files) :
                         RemovedFrom(IdSeq(files), IdSeq(files'), id)
        /\ \A id \in 1..(nextId - 1) :
              id \notin Ids(files) => id \notin Ids(files') ]_vars

\* the first two items of a run were removed during the run: the first has
\* settled, the second is reporting progress, neither is in the queue
C26_Witness ==
    /\ runs # <<>>
    /\ runs[1].idx = 2
    /\ Len(runs[1].settled) = 1
    /\ runs[1].c.reported # <<>>
    /\ runs[1].queue[1].id \notin Ids(files)
    /\ runs[1].c.id \notin Ids(files)
    /\ files # <<>>

\* the greatest identifier a run has selected
MaxQueueId(run) ==
    CHOOSE m \in {run.queue[k].id : k \in DOMAIN run.queue} :
        \A k \in DOMAIN run.queue : run.queue[k].id <= m

\* C27: while a run is in flight, a file enqueued after the run took its
\* queue (identifiers are handed out in enqueue order, so it has a greater
\* identifier than every selected item) is not touched by the run: it is
\* Idle with no progress string, result or error.
C27_LateFilesStayIdle ==
    \A r \in DOMAIN runs :
        \A k \in DOMAIN files :
            files[k].id > MaxQueueId(runs[r])
              => \/ files[k] = NewFile(files[k].id, files[k].type)
                 \/ files[k].status = COMPLETED

\* the run is at its last item and a file enqueued after its start is Idle
C27_Witness ==
    /\ runs # <<>>
    /\ runs[1].idx = Len(runs[1].queue)
    /\ runs[1].idx >= 2
    /\ runs[1].c.pc = "generate"
    /\ \E k \in DOMAIN files :
          files[k].id > MaxQueueId(runs[1]) /\ files[k].status = IDLE

\* C28: when the call for an item that holds the error of an earlier
\* failure returns, the item becomes Completed with the returned text as
\* its result and its error message stays as it was.
C28_ErrorKeptOnSuccess ==
    [][ \A r \in DOMAIN runs :
          (/\ runs[r].c.pc = "settled"
           /\ runs[r].c.outcome.kind = "return"
           /\ runs[r].c.id \in Ids(files))
            => LET old == FileOf(files, runs[r].c.id)
                   new == FileOf(files', runs[r].c.id)
               IN  /\ new.status = COMPLETED
                   /\ new.result = Some(runs[r].c.outcome.value)
                   /\ new.error = old.error ]_vars

\* a Completed item carries a result and the error of its earlier failure
C28_Witness ==
    \E k \in DOMAIN files :
        /\ files[k].status = COMPLETED
        /\ files[k].result = Some(<<"OK">>)
        /\ files[k].error # None

Accepting == runs = <<>> /\ ~isQueueProcessing /\ ~shown.isQueueProcessing

\* C25: when every remote call and timer returns, a run that has passed
\* the guard ends, whatever its items do and whatever the user removes or
\* clears meanwhile, and the flag is back to false in the state and on the
\* screen, so that a later invocation passes the guard.
C25_RunEnds == (runs # <<>>) ~> Accepting

\* a run over two items has ended after its second item was removed
\* during the run, and the screen shows the flag false
C25_Witness ==
    /\ Accepting
    /\ last = "other"
    /\ nextId = 3
    /\ Len(files) = 1
    /\ files[1].id = 1
    /\ files[1].status \in Terminal

\* ----------------------------------------------------------- C29, C30 --
\* the urls of the handleStart invocation in flight are pairwise distinct
DistinctUrls(list) ==
    \A j, k \in DOMAIN list : j # k => list[j] # list[k]

WebRunning == web.pc # "idle"

WebSettled == {W_DONE, W_ERROR}

\* the status an entry shows while handleStart is parked at an await of it
StatusAt(pc) ==
    IF pc \in {"fetch", "refetch", "text"} THEN W_FETCHING
    ELSE IF pc \in {"timer", "canvas"} THEN W_RENDERING
    ELSE W_ANALYZING

\* the moves of one entry's status
WebMoves ==
    {<<W_PENDING, W_FETCHING>>, <<W_FETCHING, W_RENDERING>>,
     <<W_RENDERING, W_ANALYZING>>, <<W_ANALYZING, W_DONE>>,
     <<W_FETCHING, W_ERROR>>, <<W_RENDERING, W_ERROR>>,
     <<W_ANALYZING, W_ERROR>>}

\* the urls before the current one are settled, the current one is in the
\* stage handleStart is parked at, the urls after it are pending
OneAtATimeInOrder ==
    /\ Len(web.results) = Len(web.list)
    /\ web.i \in DOMAIN web.list
    /\ \A k \in DOMAIN web.results :
          /\ web.results[k].url = web.list[k]
          /\ k < web.i => web.results[k].status \in WebSettled
          /\ k = web.i => web.results[k].status = StatusAt(web.pc)
          /\ k > web.i => web.results[k].status = W_PENDING

\* one step of a run: the index stays or moves to the next url, statuses
\* move along WebMoves, settled entries stay as they are, an entry that
\* becomes an error is followed by the fetch of the next url, and the run
\* ends only after the last url
WebRunStep ==
    /\ web'.i \in {web.i, web.i + 1, 0}
    /\ web'.i = 0 <=> web'.pc = "idle"
    /\ web'.pc = "idle" /\ web'.mounted => web.i = Len(web.list)
    /\ Len(web'.results) = Len(web.results)
    /\ \A k \in DOMAIN web.results :
          /\ \/ web'.results[k].status = web.results[k].status
             \/ <<web.results[k].status, web'.results[k].status>> \in WebMoves
          /\ web.results[k].status \in WebSettled
                => web'.results[k] = web.results[k]
          /\ /\ web.results[k].status # W_ERROR
             /\ web'.results[k].status = W_ERROR
             /\ k < Len(web.list)
             => /\ web'.pc = "fetch"
                /\ web'.i = k + 1
                /\ web'.results[k + 1].status = W_FETCHING

\* C29: while the page is mounted and a handleStart invocation over
\* pairwise distinct urls is in flight, the urls are processed one at a time
\* in input order, each status only moves pending, fetching, rendering,
\* analyzing, done or from fetching/rendering/analyzing to error, a done or
\* error entry is not changed again, and an error on one url is followed by
\* the fetch of the next
C29_InOrderOneAtATime ==
    [][ web.mounted /\ WebRunning /\ DistinctUrls(web.list)
        => OneAtATimeInOrder /\ WebRunStep ]_vars

\* two distinct urls: the first ended in error and the second is analyzed
C29_Witness ==
    /\ web.mounted
    /\ Len(web.list) = 2
    /\ DistinctUrls(web.list)
    /\ web.i = 2
    /\ web.pc = "analyze"
    /\ web.results[1].status = W_ERROR
    /\ web.results[2].status = W_ANALYZING

\* entries with the same url are the same in every field
DuplicatesIdentical ==
    \A j, k \in DOMAIN web.results :
        web.results[j].url = web.results[k].url
            => web.results[j] = web.results[k]

\* the entry carries the outcome of an earlier pass over its url: the error
\* of lines 171 or the isFallback of line 165
HasOutcome(r) == r.error # None \/ r.isFallback # None

\* the step that starts the fetch of the next url puts every entry with
\* that url to fetching; an earlier entry with that url was done or error
\* before the step, or is settled by this very step (the url just
\* processed: its done or error update and the fetching update are applied
\* in one continuation), and keeps the outcome it had
RefetchesDuplicates ==
    web'.pc = "fetch" /\ web'.i # web.i
        => \A k \in DOMAIN web'.results :
              web'.results[k].url = web'.list[web'.i]
                  => /\ web'.results[k].status = W_FETCHING
                     /\ k < web'.i
                        => /\ \/ web.results[k].status \in WebSettled
                              \/ web.results[k].url = web.list[web.i]
                           /\ HasOutcome(web'.results[k])

\* C30: every update is keyed by url: entries with the same url are
\* identical after every step, and when handleStart moves on to a url every
\* entry with that url shows fetching, an earlier one having been done or
\* error before
C30_DuplicatesMoveTogether ==
    [][ DuplicatesIdentical' /\ RefetchesDuplicates ]_vars

\* the same url twice: the first entry, done before, is fetching again
\* while the second one is processed
C30_Witness ==
    /\ web.mounted
    /\ web.list = <<UrlWeixin, UrlWeixin>>
    /\ web.i = 2
    /\ web.pc = "fetch"
    /\ web.results[1].status = W_FETCHING
    /\ web.results[1].analysis # <<>>
    /\ web.results[1].isFallback = Some(TRUE)
    /\ web.results[2] = web.results[1]

=============================================================================
